---------------------------- MODULE Spec2Model ----------------------------
(***************************************************************************)
(* Opponent-interaction aggregation and suspicion classification of the    *)
(* valorant-abusing-detector backend: AnalyzeMatches and its caller        *)
(* getMatches (src/api/index.go, lines 294-475).                           *)
(*                                                                         *)
(* The for-range loop of AnalyzeMatches is modelled one iteration per      *)
(* step: each Iterate step consumes the next match record of res.Data.     *)
(* Finish is the code after the loop (classification over the Go map,      *)
(* sort.Slice, return) and Respond is the c.JSON call of getMatches.       *)
(*                                                                         *)
(* Loosely typed JSON values: a value that may be absent or of the wrong   *)
(* type is a record with a field ok; [ok |-> FALSE] stands for every value *)
(* on which the code's type assertion fails.  A string field whose         *)
(* assertion fails reads as "" and a number as 0, as `v, _ := x.(T)` does. *)
(***************************************************************************)
EXTENDS Naturals, Sequences, FiniteSets, TLC

VARIABLES
    targetPUUID,   \* the :puuid path parameter handed to AnalyzeMatches
    statsMap,      \* map[string]*PlayerStat, a function on the keys present
    histories,     \* []MatchSummary (Go slice: nil flag and elements)
    findings,      \* []string (Go slice)
    results,       \* []PlayerStat (Go slice)
    nMatches,      \* match records of res.Data consumed so far
    pc,            \* "loop", "returned", "responded", or "aborted" by a panic
    response,      \* the JSON body written by getMatches
    calls          \* the locals of AnalyzeMatches invocations running side by side

vars == <<targetPUUID, statsMap, histories, findings, results, nMatches, pc, response,
          calls>>

---------------------------------------------------------------------------
(* Bounds of the model *)

MaxMatches == 2
MaxPlayers == 2
RedMatches == 3
DeepMatches == 5
ShapeMatches == 2
OutcomeMatches == 2
SideMatches == 2
CheckMatches == 6
PairMatches == 2

(* Program constants *)

EnemyThreshold == 3
LossRatioNum == 3
LossRatioDen == 4

(* ... and of the earlier variant CheckForAbusing: MatchesMet >= 5 and a  *)
(* loss ratio >= 0.8                                                       *)
CheckMinMet == 5
CheckRatioNum == 4
CheckRatioDen == 5

---------------------------------------------------------------------------
(* Go slices: nil and empty are different values, and encoding/json writes *)
(* a nil slice as null and an empty one as [].                             *)

NilSlice == [isNil |-> TRUE, elems |-> <<>>]

MakeSlice == [isNil |-> FALSE, elems |-> <<>>]

GoAppend(s, x) == [isNil |-> FALSE, elems |-> Append(s.elems, x)]

GoLen(s) == Len(s.elems)

JSONArray(s) == IF s.isNil THEN [null |-> TRUE, items |-> <<>>]
                ELSE [null |-> FALSE, items |-> s.elems]

---------------------------------------------------------------------------
(* Loosely typed input records *)

Missing == [ok |-> FALSE]

StrField(rec, f) == IF rec.ok THEN rec[f] ELSE ""

NumField(rec, f) == IF rec.ok THEN rec[f] ELSE 0

(* strings.EqualFold on the strings of the model: simple case folding *)
ToLower(s) ==
    CASE s = "T" -> "t"
      [] s = "A" -> "a"
      [] s = "Red" -> "red"
      [] s = "RED" -> "red"
      [] s = "Blue" -> "blue"
      [] s = "BLUE" -> "blue"
      [] OTHER -> s

EqualFoldExact(a, b) == a = b

EqualFold(a, b) == ToLower(a) = ToLower(b)

---------------------------------------------------------------------------
(* The per-match part of AnalyzeMatches *)

(* 1. first loop over all_players: the subject's own entry *)
TargetScan(allPlayers, target) ==
    LET hits == {i \in 1..Len(allPlayers) :
                    EqualFold(StrField(allPlayers[i], "puuid"), target)}
    IN  IF hits = {}
        THEN [targetTeam |-> "", targetAgent |-> "", targetKills |-> 0,
              targetDeaths |-> 0, targetAssists |-> 0, targetScore |-> 0]
        ELSE LET player == allPlayers[CHOOSE i \in hits : \A j \in hits : i <= j]
                 stats == player.stats
             IN  [targetTeam |-> player.team,
                  targetAgent |-> player.character,
                  targetKills |-> NumField(stats, "kills"),
                  targetDeaths |-> NumField(stats, "deaths"),
                  targetAssists |-> NumField(stats, "assists"),
                  targetScore |-> NumField(stats, "score")]

(* 2. win/loss decision.  The result strings of the source are Korean     *)
(* words (lines 400, 402, 404: victory, draw, defeat) and "-" (line 389);  *)
(* they are written here in ASCII.                                         *)
ResultWin == "win"

ResultDraw == "draw"

ResultLoss == "loss"

ResultNone == "-"

OutcomeSwappedKey(teams, targetTeam) ==
    IF teams.ok /\ targetTeam # ""
    THEN LET teamKey == IF EqualFold(targetTeam, "Blue") THEN "red" ELSE "blue"
             teamInfo == teams[teamKey]
         IN  IF teamInfo.ok
             THEN [targetWon |-> teamInfo.has_won,
                   resultStr |->
                      IF teamInfo.has_won THEN ResultWin
                      ELSE IF teamInfo.rounds_won = teamInfo.rounds_lost
                              /\ teamInfo.rounds_won > 0 THEN ResultDraw
                      ELSE ResultLoss]
             ELSE [targetWon |-> FALSE, resultStr |-> ResultNone]
    ELSE [targetWon |-> FALSE, resultStr |-> ResultNone]

Outcome(teams, targetTeam) ==
    IF teams.ok /\ targetTeam # ""
    THEN LET teamKey == IF EqualFold(targetTeam, "Blue") THEN "blue" ELSE "red"
             teamInfo == teams[teamKey]
         IN  IF teamInfo.ok
             THEN [targetWon |-> teamInfo.has_won,
                   resultStr |->
                      IF teamInfo.has_won THEN ResultWin
                      ELSE IF teamInfo.rounds_won = teamInfo.rounds_lost
                              /\ teamInfo.rounds_won > 0 THEN ResultDraw
                      ELSE ResultLoss]
             ELSE [targetWon |-> FALSE, resultStr |-> ResultNone]
    ELSE [targetWon |-> FALSE, resultStr |-> ResultNone]

MatchSummary(meta, t, resultStr) ==
    [MatchID |-> StrField(meta, "matchid"), Map |-> StrField(meta, "map"),
     Mode |-> StrField(meta, "mode"),
     Agent |-> t.targetAgent, Result |-> resultStr,
     Kills |-> t.targetKills, Deaths |-> t.targetDeaths,
     Assists |-> t.targetAssists, Score |-> t.targetScore]

PlayerStat(puuid, name) ==
    [PUUID |-> puuid, Name |-> name, Met |-> 0, AsAlly |-> 0, AsEnemy |-> 0,
     TargetLost |-> 0, Kills |-> 0, Deaths |-> 0, Assists |-> 0, Score |-> 0]

(* 3. body of the second loop over all_players, for one element p *)

(* the counters of lines 446-457 *)
TallyEnemyAlways(s, pStats, ally, targetWon) ==
    [s EXCEPT
       !.Met = @ + 1,
       !.Kills = @ + NumField(pStats, "kills"),
       !.Deaths = @ + NumField(pStats, "deaths"),
       !.Assists = @ + NumField(pStats, "assists"),
       !.Score = @ + NumField(pStats, "score"),
       !.AsAlly = IF ally THEN @ + 1 ELSE @,
       !.AsEnemy = @ + 1,
       !.TargetLost = IF targetWon THEN @ ELSE @ + 1]

TallyMetEnemyOnly(s, pStats, ally, targetWon) ==
    [s EXCEPT
       !.Met = IF ally THEN @ ELSE @ + 1,
       !.Kills = @ + NumField(pStats, "kills"),
       !.Deaths = @ + NumField(pStats, "deaths"),
       !.Assists = @ + NumField(pStats, "assists"),
       !.Score = @ + NumField(pStats, "score"),
       !.AsAlly = @,
       !.AsEnemy = IF ally THEN @ ELSE @ + 1,
       !.TargetLost = IF targetWon THEN @ ELSE @ + 1]

TallyLostInverted(s, pStats, ally, targetWon) ==
    [s EXCEPT
       !.Met = @ + 1,
       !.Kills = @ + NumField(pStats, "kills"),
       !.Deaths = @ + NumField(pStats, "deaths"),
       !.Assists = @ + NumField(pStats, "assists"),
       !.Score = @ + NumField(pStats, "score"),
       !.AsAlly = IF ally THEN @ + 1 ELSE @,
       !.AsEnemy = IF ally THEN @ ELSE @ + 1,
       !.TargetLost = IF targetWon THEN @ + 1 ELSE @]

TallyLatestStats(s, pStats, ally, targetWon) ==
    [s EXCEPT
       !.Met = @ + 1,
       !.Kills = NumField(pStats, "kills"),
       !.Deaths = NumField(pStats, "deaths"),
       !.Assists = NumField(pStats, "assists"),
       !.Score = NumField(pStats, "score"),
       !.AsAlly = IF ally THEN @ + 1 ELSE @,
       !.AsEnemy = IF ally THEN @ ELSE @ + 1,
       !.TargetLost = IF targetWon THEN @ ELSE @ + 1]

Tally(s, pStats, ally, targetWon) ==
    [s EXCEPT
       !.Met = @ + 1,
       !.Kills = @ + NumField(pStats, "kills"),
       !.Deaths = @ + NumField(pStats, "deaths"),
       !.Assists = @ + NumField(pStats, "assists"),
       !.Score = @ + NumField(pStats, "score"),
       !.AsAlly = IF ally THEN @ + 1 ELSE @,
       !.AsEnemy = IF ally THEN @ ELSE @ + 1,
       !.TargetLost = IF targetWon THEN @ ELSE @ + 1]

AccumulateAllyOnEmpty(sm, p, targetTeam, targetWon, target) ==
    IF ~p.ok THEN sm
    ELSE LET pPUUID == p.puuid IN
         IF EqualFold(pPUUID, target) THEN sm
         ELSE LET s0 == IF pPUUID \in DOMAIN sm THEN sm[pPUUID]
                        ELSE PlayerStat(pPUUID, p.name \o "#" \o p.tag)
                  ally == EqualFold(p.team, targetTeam)
                  s1 == Tally(s0, p.stats, ally, targetWon)
              IN  [k \in DOMAIN sm \cup {pPUUID} |-> IF k = pPUUID THEN s1 ELSE sm[k]]

AccumulateNamedOnly(sm, p, targetTeam, targetWon, target) ==
    IF ~p.ok THEN sm
    ELSE LET pPUUID == p.puuid IN
         IF EqualFold(pPUUID, target) \/ pPUUID = "" THEN sm
         ELSE LET s0 == IF pPUUID \in DOMAIN sm THEN sm[pPUUID]
                        ELSE PlayerStat(pPUUID, p.name \o "#" \o p.tag)
                  ally == p.team # "" /\ EqualFold(p.team, targetTeam)
                  s1 == Tally(s0, p.stats, ally, targetWon)
              IN  [k \in DOMAIN sm \cup {pPUUID} |-> IF k = pPUUID THEN s1 ELSE sm[k]]

AccumulateRenaming(sm, p, targetTeam, targetWon, target) ==
    IF ~p.ok THEN sm
    ELSE LET pPUUID == p.puuid IN
         IF EqualFold(pPUUID, target) THEN sm
         ELSE LET s0 == IF pPUUID \in DOMAIN sm
                        THEN [sm[pPUUID] EXCEPT !.Name = p.name \o "#" \o p.tag]
                        ELSE PlayerStat(pPUUID, p.name \o "#" \o p.tag)
                  ally == p.team # "" /\ EqualFold(p.team, targetTeam)
                  s1 == Tally(s0, p.stats, ally, targetWon)
              IN  [k \in DOMAIN sm \cup {pPUUID} |-> IF k = pPUUID THEN s1 ELSE sm[k]]

Accumulate(sm, p, targetTeam, targetWon, target) ==
    IF ~p.ok THEN sm
    ELSE LET pPUUID == p.puuid IN
         IF EqualFold(pPUUID, target) THEN sm
         ELSE LET s0 == IF pPUUID \in DOMAIN sm THEN sm[pPUUID]
                        ELSE PlayerStat(pPUUID, p.name \o "#" \o p.tag)
                  ally == p.team # "" /\ EqualFold(p.team, targetTeam)
                  s1 == Tally(s0, p.stats, ally, targetWon)
              IN  [k \in DOMAIN sm \cup {pPUUID} |-> IF k = pPUUID THEN s1 ELSE sm[k]]

RECURSIVE AccumulateAll(_, _, _, _, _, _)
AccumulateAll(sm, allPlayers, i, targetTeam, targetWon, target) ==
    IF i > Len(allPlayers) THEN sm
    ELSE AccumulateAll(Accumulate(sm, allPlayers[i], targetTeam, targetWon, target),
                       allPlayers, i + 1, targetTeam, targetWon, target)

(* `continue` conditions at the head of the loop body *)
SkippedWithoutTeams(m) ==
    \/ ~m.metadata.ok
    \/ ~m.players.ok
    \/ ~m.players.all_players.ok
    \/ ~m.teams.ok

SkippedIgnoringMetadata(m) ==
    \/ ~m.players.ok
    \/ ~m.players.all_players.ok

Skipped(m) ==
    \/ ~m.metadata.ok
    \/ ~m.players.ok
    \/ ~m.players.all_players.ok

(* A type assertion x.(T) on a value that is not a T panics in its        *)
(* one-value form and yields the zero value in its two-value form.         *)
AssertPanics(x, twoValue) == ~twoValue /\ ~x.ok

(* The assertions of the loop body on record-valued fields, each with the  *)
(* form the source uses (all of them two-value).  Reads of a nil map, as   *)
(* player["puuid"] after a failed assertion at line 372, are legal in Go.  *)
PanicsOneValuePlayer(m) ==
    /\ ~Skipped(m)
    /\ \E i \in DOMAIN m.players.all_players.list :
          AssertPanics(m.players.all_players.list[i], FALSE)

Panics(m) ==
    \/ AssertPanics(m.metadata, TRUE)
    \/ AssertPanics(m.players, TRUE)
    \/ m.players.ok /\ AssertPanics(m.players.all_players, TRUE)
    \/ /\ ~Skipped(m)
       /\ \/ \E i \in DOMAIN m.players.all_players.list :
                LET p == m.players.all_players.list[i]
                IN  \/ AssertPanics(p, TRUE)
                    \/ p.ok /\ AssertPanics(p.stats, TRUE)
          \/ AssertPanics(m.teams, TRUE)
          \/ m.teams.ok /\ AssertPanics(m.teams.red, TRUE)
          \/ m.teams.ok /\ AssertPanics(m.teams.blue, TRUE)

---------------------------------------------------------------------------
(* The code after the loop *)

(* lossRatio >= 0.75 with lossRatio := float64(TargetLost) / float64(Met): *)
(* 0.75 is a float64 and the quotient of two small integers is rounded to  *)
(* the nearest float64, so the comparison is that of the exact fractions,  *)
(* TargetLost / Met >= LossRatioNum / LossRatioDen.  Met >= 1 here.        *)
FlaggedOverEnemy(s) ==
    /\ s.AsEnemy >= EnemyThreshold
    /\ s.TargetLost * LossRatioDen >= LossRatioNum * s.AsEnemy

FlaggedStrictEnemy(s) ==
    /\ s.AsEnemy > EnemyThreshold
    /\ s.TargetLost * LossRatioDen >= LossRatioNum * s.Met

FlaggedLowRatio(s) ==
    /\ s.AsEnemy >= EnemyThreshold
    /\ s.TargetLost * LossRatioDen <= LossRatioNum * s.Met

Flagged(s) ==
    /\ s.AsEnemy >= EnemyThreshold
    /\ s.TargetLost * LossRatioDen >= LossRatioNum * s.Met

Finding(s) == [Name |-> s.Name, Met |-> s.Met, TargetLost |-> s.TargetLost]

(* every order in which `for _, s := range statsMap` may visit the keys *)
Orders(S) == {f \in [1..Cardinality(S) -> S] : \A i, j \in DOMAIN f : f[i] = f[j] => i = j}

RECURSIVE Classify(_, _, _, _)
Classify(sm, order, i, acc) ==
    IF i > Len(order) THEN acc
    ELSE LET s == sm[order[i]]
             r == GoAppend(acc.results, s)
             f == IF Flagged(s) THEN GoAppend(acc.findings, Finding(s))
                  ELSE acc.findings
         IN  Classify(sm, order, i + 1, [results |-> r, findings |-> f])

SortSliceOmitted(r) == {r}

(* sort.Slice with less = Met greater: some permutation ordered by less;  *)
(* the sort is not stable, so equal elements may come out in any order    *)
SortSlice(r) ==
    {[isNil |-> r.isNil, elems |-> [i \in 1..GoLen(r) |-> r.elems[q[i]]]] :
        q \in {o \in Orders(1..GoLen(r)) :
                 \A i, j \in 1..GoLen(r) :
                    i < j => ~(r.elems[o[j]].Met > r.elems[o[i]].Met)}}

---------------------------------------------------------------------------
(* Match records supplied by the provider *)

Player(puuid, name, tag, team, character, stats) ==
    [ok |-> TRUE, puuid |-> puuid, name |-> name, tag |-> tag, team |-> team,
     character |-> character, stats |-> stats]

Stats(k, d, a, sc) == [ok |-> TRUE, kills |-> k, deaths |-> d, assists |-> a, score |-> sc]

TeamInfo(won, rw, rl) == [ok |-> TRUE, has_won |-> won, rounds_won |-> rw, rounds_lost |-> rl]

Teams(red, blue) == [ok |-> TRUE, red |-> red, blue |-> blue]

Metadata(id, map, mode) == [ok |-> TRUE, matchid |-> id, map |-> map, mode |-> mode]

AllPlayers(list) == [ok |-> TRUE, all_players |-> [ok |-> TRUE, list |-> list]]

Match(meta, players, teams) == [metadata |-> meta, players |-> players, teams |-> teams]

SeqsUpTo(S, n) == UNION {[1..k -> S] : k \in 0..n}

Targets == {"t"}

CoreMeta == Metadata("m", "Ascent", "Competitive")

Subjects == {Player("T", "me", "KR", tm, "Jett", Stats(2, 1, 1, 3)) : tm \in {"Red", "Blue"}}

Opponent(id, tm) == Player(id, "nick_" \o id, "1", tm, "Sage", Stats(1, 1, 0, 2))

Opponents == {Opponent("a", "Red"), Opponent("a", "Blue"), Opponent("A", "Blue")}

CoreTeams == {Teams(TeamInfo(TRUE, 2, 1), TeamInfo(FALSE, 1, 2)),
              Teams(TeamInfo(FALSE, 1, 2), TeamInfo(TRUE, 2, 1)),
              Teams(TeamInfo(FALSE, 1, 1), TeamInfo(FALSE, 1, 1)),
              Missing}

Malformed == {Match(Missing, AllPlayers(<<>>), Missing),
              Match(CoreMeta, Missing, Missing),
              Match(CoreMeta, [ok |-> TRUE, all_players |-> Missing], Missing)}

Matches ==
    {Match(CoreMeta, AllPlayers(l), tm) :
        l \in SeqsUpTo(Subjects \cup Opponents, MaxPlayers), tm \in CoreTeams}
    \cup Malformed

(* Ordinary matches: the subject on Red and one other player *)
SubjectRed == Player("T", "me", "KR", "Red", "Jett", Stats(2, 1, 1, 3))

RedWon == Teams(TeamInfo(TRUE, 2, 1), TeamInfo(FALSE, 1, 2))

BlueWon == Teams(TeamInfo(FALSE, 1, 2), TeamInfo(TRUE, 2, 1))

DeepOpponents == Opponents \cup {Opponent("b", "Blue")}

DeepInputs ==
    {Match(CoreMeta, AllPlayers(<<SubjectRed, o>>), tm) :
        o \in DeepOpponents, tm \in {RedWon, BlueWon}}

(* Matches the subject loses on Red: teams.red.has_won is false *)
RedLost == {BlueWon,
            Teams(TeamInfo(FALSE, 1, 1), TeamInfo(FALSE, 1, 1)),
            Teams(TeamInfo(FALSE, 0, 0), Missing)}

RedInputs ==
    {Match(meta, AllPlayers(l), tm) :
        meta \in {CoreMeta, Missing},
        l \in {q \in SeqsUpTo({SubjectRed} \cup Opponents, MaxPlayers) :
                 \E i \in DOMAIN q : q[i] = SubjectRed},
        tm \in RedLost}

(* ... and in which opponent X appears once, on Blue *)
X == "a"

XBlue == Opponent(X, "Blue")

RedXInputs ==
    {Match(CoreMeta, AllPlayers(l), tm) :
        l \in {q \in SeqsUpTo({SubjectRed, XBlue, Opponent("A", "Blue")}, MaxPlayers + 1) :
                 /\ \E i \in DOMAIN q : q[i] = SubjectRed
                 /\ Cardinality({i \in DOMAIN q : q[i] = XBlue}) = 1},
        tm \in RedLost}

(* Heterogeneous and malformed records: player entries that are no JSON   *)
(* object or lack every field, lists without the subject, records without  *)
(* metadata or teams                                                       *)
NotAMap == Missing

Bare == Player("", "", "", "", "", Missing)

OtherMeta == Metadata("n", "", "Deathmatch")

XRenamed == Player(X, "other", "2", "Blue", "Sage", Stats(0, 2, 1, 0))

ShapePlayers == {NotAMap, Bare, SubjectRed, XBlue, XRenamed}

ShapeLists == {<<>>} \cup {<<p>> : p \in ShapePlayers}
                     \cup {<<p, q>> : p \in ShapePlayers, q \in ShapePlayers}

ShapeInputs ==
    {Match(meta, AllPlayers(l), BlueWon) : meta \in {CoreMeta, OtherMeta}, l \in ShapeLists}
    \cup {Match(CoreMeta, AllPlayers(<<SubjectRed, XBlue>>), Missing),
          Match(CoreMeta, AllPlayers(<<SubjectRed, XBlue>>),
                Teams(Missing, TeamInfo(FALSE, 0, 0))),
          Match(Missing, AllPlayers(<<SubjectRed, XBlue>>), BlueWon)}
    \cup Malformed

(* Team labels of the subject and shapes of the teams mapping *)
Labels == {"Red", "Blue", "blue", "Green", ""}

Infos == {Missing, TeamInfo(TRUE, 2, 1), TeamInfo(FALSE, 1, 2),
          TeamInfo(FALSE, 1, 1), TeamInfo(FALSE, 0, 0)}

OutcomeLists ==
    {<<XBlue>>} \cup {<<Player("t", "me", "KR", lb, "Jett", Stats(2, 1, 1, 3)), XBlue>> :
                        lb \in Labels}

OutcomeInputs ==
    {Match(CoreMeta, AllPlayers(l), tm) :
        l \in OutcomeLists,
        tm \in {Missing} \cup {Teams(r, b) : r \in Infos, b \in Infos}}

(* Team labels of the subject against team labels of one other player *)
SideLabels == {"Blue", "BLUE", "Red", ""}

SideLists ==
    {<<Opponent(X, ol)>> : ol \in SideLabels}
    \cup {<<Player("t", "me", "KR", lb, "Jett", Stats(2, 1, 1, 3)), Opponent(X, ol)>> :
            lb \in Labels, ol \in SideLabels}

SideInputs == {Match(CoreMeta, AllPlayers(l), tm) : l \in SideLists, tm \in {RedWon, BlueWon}}

(* Inputs of the earlier variant: the subject under its exact puuid, one  *)
(* other player on the other or on the subject's team, and a record        *)
(* without teams                                                           *)
SubjectExact == Player("t", "me", "KR", "Red", "Jett", Stats(2, 1, 1, 3))

CheckLists == {<<SubjectExact, Opponent(X, "Blue")>>,
               <<SubjectExact, Opponent(X, "Red")>>,
               <<SubjectExact, Opponent("b", "Blue")>>}

CheckInputs ==
    {Match(CoreMeta, AllPlayers(l), tm) : l \in CheckLists, tm \in {RedWon, BlueWon}}
    \cup {Match(CoreMeta, AllPlayers(<<SubjectExact, Opponent(X, "Blue")>>), Missing)}

(* Matches in which the subjects of both requests play, or only one *)
PairInputs ==
    {Match(CoreMeta, AllPlayers(<<SubjectRed, XBlue>>), tm) : tm \in {RedWon, BlueWon}}
    \cup {Match(OtherMeta, AllPlayers(<<SubjectRed, Opponent("b", "Blue")>>), BlueWon),
          Match(OtherMeta, AllPlayers(<<XBlue, Opponent("b", "Blue")>>), BlueWon)}

(* both assertions leading to the player list succeed *)
HasList(m) == m.players.ok /\ m.players.all_players.ok

---------------------------------------------------------------------------
(* State machine *)

NoResponse == [status |-> 0]

(* Two requests in flight, each with its own subject *)
CallIds == {1, 2}

CallTargets == <<"t", "a">>

(* the locals of one invocation at its start (350-353); input records the  *)
(* match records its loop has consumed                                     *)
Fresh(target) ==
    [target |-> target, statsMap |-> <<>>, findings |-> NilSlice, histories |-> NilSlice,
     results |-> NilSlice, input |-> <<>>, pc |-> "loop"]

Init ==
    /\ targetPUUID \in Targets
    /\ statsMap = <<>>
    /\ findings = NilSlice
    /\ histories = NilSlice
    /\ results = NilSlice
    /\ nMatches = 0
    /\ pc = "loop"
    /\ response = NoResponse
    /\ calls = [i \in CallIds |-> Fresh(CallTargets[i])]

(* one iteration of `for _, m := range matches` *)
Iterate(m) ==
    /\ pc = "loop"
    /\ nMatches' = nMatches + 1
    /\ IF Panics(m)
       THEN pc' = "aborted" /\ UNCHANGED <<statsMap, histories>>
       ELSE /\ pc' = pc
            /\ IF Skipped(m)
               THEN UNCHANGED <<statsMap, histories>>
               ELSE LET allPlayers == m.players.all_players.list
                        t == TargetScan(allPlayers, targetPUUID)
                        o == Outcome(m.teams, t.targetTeam)
                    IN  /\ histories' = GoAppend(histories,
                                            MatchSummary(m.metadata, t, o.resultStr))
                        /\ statsMap' = AccumulateAll(statsMap, allPlayers, 1, t.targetTeam,
                                                     o.targetWon, targetPUUID)
    /\ UNCHANGED <<targetPUUID, findings, results, response, calls>>

(* what lines 461-474 may return for a map sm: one pair of findings and    *)
(* results for every iteration order of the map and every outcome of the   *)
(* sort                                                                    *)
Returns(sm, f0) ==
    UNION {LET acc == Classify(sm, order, 1, [results |-> MakeSlice, findings |-> f0])
           IN  {[findings |-> acc.findings, results |-> r] : r \in SortSlice(acc.results)} :
           order \in Orders(DOMAIN sm)}

(* the code after the loop: classification, sort.Slice, return *)
Finish ==
    /\ pc = "loop"
    /\ \E ret \in Returns(statsMap, findings) :
          /\ findings' = ret.findings
          /\ results' = ret.results
    /\ pc' = "returned"
    /\ UNCHANGED <<targetPUUID, statsMap, histories, nMatches, response, calls>>

(* "abusingDetected": len(findings) > 0 *)
AbusingDetectedAlways(f) == GoLen(f) >= 0

AbusingDetected(f) == GoLen(f) > 0

(* "matchesCount": len(res.Data), n being the number of records handed to *)
(* AnalyzeMatches and h the history it returned                            *)
MatchesCountOfHistory(n, h) == GoLen(h)

MatchesCount(n, h) == n

(* getMatches: the JSON body *)
Respond ==
    /\ pc = "returned"
    /\ response' = [status |-> 200,
                    matchesCount |-> MatchesCount(nMatches, histories),
                    abusingDetected |-> AbusingDetected(findings),
                    details |-> JSONArray(findings),
                    players |-> JSONArray(results),
                    history |-> JSONArray(histories)]
    /\ pc' = "responded"
    /\ UNCHANGED <<targetPUUID, statsMap, histories, findings, results, nMatches, calls>>

(* the loop takes the next record of the input, of at most `bound` records *)
Loop(Inputs, bound) == \E m \in Inputs : nMatches < bound /\ Iterate(m)

Next ==
    \/ Loop(Matches, MaxMatches)
    \/ Finish
    \/ Respond

Spec == Init /\ [][Next]_vars

NextDeep ==
    \/ Loop(DeepInputs, DeepMatches)
    \/ Finish
    \/ Respond

SpecDeep == Init /\ [][NextDeep]_vars

NextRed ==
    \/ Loop(RedInputs, MaxMatches)
    \/ Finish
    \/ Respond

SpecRed == Init /\ [][NextRed]_vars

NextRedX ==
    \/ Loop(RedXInputs, RedMatches)
    \/ Finish
    \/ Respond

SpecRedX == Init /\ [][NextRedX]_vars

NextShapes ==
    \/ Loop(ShapeInputs, ShapeMatches)
    \/ Finish
    \/ Respond

SpecShapes == Init /\ [][NextShapes]_vars

NextOutcome ==
    \/ Loop(OutcomeInputs, OutcomeMatches)
    \/ Finish
    \/ Respond

SpecOutcome == Init /\ [][NextOutcome]_vars

NextSides ==
    \/ Loop(SideInputs, SideMatches)
    \/ Finish
    \/ Respond

SpecSides == Init /\ [][NextSides]_vars

---------------------------------------------------------------------------
(* Invocations of AnalyzeMatches by requests served at the same time: the  *)
(* steps of the two loops interleave, each on the locals of its own call.  *)

(* one iteration of the loop on the locals st of a call *)
Body(st, m) ==
    IF Panics(m) THEN [st EXCEPT !.pc = "aborted", !.input = Append(@, m)]
    ELSE IF Skipped(m) THEN [st EXCEPT !.input = Append(@, m)]
    ELSE LET allPlayers == m.players.all_players.list
             t == TargetScan(allPlayers, st.target)
             o == Outcome(m.teams, t.targetTeam)
         IN  [st EXCEPT
                !.input = Append(@, m),
                !.histories = GoAppend(@, MatchSummary(m.metadata, t, o.resultStr)),
                !.statsMap = AccumulateAll(@, allPlayers, 1, t.targetTeam, o.targetWon,
                                           st.target)]

(* statsMap as one map written by every call *)
CallIterateSharedMap(cs, i, m) ==
    [j \in DOMAIN cs |-> IF j = i THEN Body(cs[i], m)
                         ELSE [cs[j] EXCEPT !.statsMap = Body(cs[i], m).statsMap]]

CallIterate(cs, i, m) == [cs EXCEPT ![i] = Body(cs[i], m)]

CallLoop ==
    /\ \E i \in CallIds : \E m \in PairInputs :
          /\ calls[i].pc = "loop"
          /\ Len(calls[i].input) < PairMatches
          /\ calls' = CallIterate(calls, i, m)
    /\ UNCHANGED <<targetPUUID, statsMap, histories, findings, results, nMatches, pc,
                   response>>

CallReturn ==
    /\ \E i \in CallIds :
          /\ calls[i].pc = "loop"
          /\ \E ret \in Returns(calls[i].statsMap, calls[i].findings) :
                calls' = [calls EXCEPT ![i].findings = ret.findings,
                                       ![i].results = ret.results,
                                       ![i].pc = "returned"]
    /\ UNCHANGED <<targetPUUID, statsMap, histories, findings, results, nMatches, pc,
                   response>>

NextPair ==
    \/ CallLoop
    \/ CallReturn

SpecPair == Init /\ [][NextPair]_vars

---------------------------------------------------------------------------
(* The earlier variant CheckForAbusing (lines 864-925), on the same        *)
(* variables: statsMap is its opponentStats, findings its return value.    *)
(* Its type assertions on records are in the one-value form and panic.     *)

OpponentInteraction(puuid) ==
    [PUUID |-> puuid, MatchesMet |-> 0, WinsAgainst |-> 0, LossesAgainst |-> 0,
     TotalKDA |-> 0]

(* the player list ranged over: a nil slice when an assertion of 869-870 fails *)
CheckList(m) == IF HasList(m) THEN m.players.all_players.list ELSE <<>>

(* first loop (876-887): the element with exactly the subject's puuid *)
CheckTargetHits(list, target) == {i \in DOMAIN list : list[i].ok /\ list[i].puuid = target}

CheckTargetTeam(list, target) ==
    IF CheckTargetHits(list, target) = {} THEN ""
    ELSE list[CHOOSE i \in CheckTargetHits(list, target) :
                 \A j \in CheckTargetHits(list, target) : i <= j].team

(* (k + a) / max(1, d); the inputs of the model keep the quotient integral *)
CheckTargetKDA(list, target) ==
    IF CheckTargetHits(list, target) = {} THEN 0
    ELSE LET st == list[CHOOSE i \in CheckTargetHits(list, target) :
                          \A j \in CheckTargetHits(list, target) : i <= j].stats
             d == IF st.deaths > 1 THEN st.deaths ELSE 1
         IN  (st.kills + st.assists) \div d

CheckTeamColor(targetTeam) == IF targetTeam = "Blue" THEN "blue" ELSE "red"

CheckPanics(m) ==
    LET list == CheckList(m)
        hits == CheckTargetHits(list, targetPUUID)
    IN  \/ \E i \in DOMAIN list : AssertPanics(list[i], FALSE)
        \/ \E i \in hits : (\A j \in hits : i <= j) /\ AssertPanics(list[i].stats, FALSE)
        \/ AssertPanics(m.teams, FALSE)
        \/ m.teams.ok /\ AssertPanics(m.teams[CheckTeamColor(CheckTargetTeam(list, targetPUUID))],
                                       FALSE)

(* body of the second loop (897-911) for one element *)
CheckCountAll(os, opp, targetTeam, targetKDA, won, target) ==
    IF opp.puuid = target THEN os
    ELSE LET s0 == IF opp.puuid \in DOMAIN os THEN os[opp.puuid]
                   ELSE OpponentInteraction(opp.puuid)
             s1 == [s0 EXCEPT !.MatchesMet = @ + 1,
                              !.TotalKDA = @ + targetKDA,
                              !.WinsAgainst = IF won THEN @ + 1 ELSE @,
                              !.LossesAgainst = IF won THEN @ ELSE @ + 1]
         IN  [k \in DOMAIN os \cup {opp.puuid} |-> IF k = opp.puuid THEN s1 ELSE os[k]]

CheckCount(os, opp, targetTeam, targetKDA, won, target) ==
    IF opp.puuid = target \/ opp.team = targetTeam THEN os
    ELSE LET s0 == IF opp.puuid \in DOMAIN os THEN os[opp.puuid]
                   ELSE OpponentInteraction(opp.puuid)
             s1 == [s0 EXCEPT !.MatchesMet = @ + 1,
                              !.TotalKDA = @ + targetKDA,
                              !.WinsAgainst = IF won THEN @ + 1 ELSE @,
                              !.LossesAgainst = IF won THEN @ ELSE @ + 1]
         IN  [k \in DOMAIN os \cup {opp.puuid} |-> IF k = opp.puuid THEN s1 ELSE os[k]]

RECURSIVE CheckCountLoop(_, _, _, _, _, _, _)
CheckCountLoop(os, list, i, targetTeam, targetKDA, won, target) ==
    IF i > Len(list) THEN os
    ELSE CheckCountLoop(CheckCount(os, list[i], targetTeam, targetKDA, won, target),
                        list, i + 1, targetTeam, targetKDA, won, target)

(* one iteration of the loop over matches (868-912) *)
CheckIterate(m) ==
    /\ pc = "loop"
    /\ nMatches' = nMatches + 1
    /\ IF CheckPanics(m)
       THEN pc' = "aborted" /\ UNCHANGED statsMap
       ELSE LET list == CheckList(m)
                targetTeam == CheckTargetTeam(list, targetPUUID)
                targetKDA == CheckTargetKDA(list, targetPUUID)
                won == m.teams[CheckTeamColor(targetTeam)].has_won
            IN  /\ pc' = pc
                /\ statsMap' = CheckCountLoop(statsMap, list, 1, targetTeam, targetKDA,
                                              won, targetPUUID)
    /\ UNCHANGED <<targetPUUID, histories, findings, results, response, calls>>

(* threshold analysis (915-922) *)
CheckFlagged(s) ==
    /\ s.MatchesMet >= CheckMinMet
    /\ s.LossesAgainst * CheckRatioDen >= CheckRatioNum * s.MatchesMet

(* the text of a finding: puuid, MatchesMet and the ratio printed with     *)
(* %.2f, kept as a number of hundredths                                    *)
CheckFinding(s) ==
    [PUUID |-> s.PUUID, MatchesMet |-> s.MatchesMet,
     lossRatio |-> (200 * s.LossesAgainst + s.MatchesMet) \div (2 * s.MatchesMet)]

RECURSIVE CheckClassify(_, _, _, _)
CheckClassify(os, order, i, f) ==
    IF i > Len(order) THEN f
    ELSE CheckClassify(os, order, i + 1,
                       IF CheckFlagged(os[order[i]])
                       THEN GoAppend(f, CheckFinding(os[order[i]])) ELSE f)

CheckReturn ==
    /\ pc = "loop"
    /\ \E order \in Orders(DOMAIN statsMap) :
          findings' = CheckClassify(statsMap, order, 1, findings)
    /\ pc' = "returned"
    /\ UNCHANGED <<targetPUUID, statsMap, histories, results, nMatches, response, calls>>

CheckLoop(Inputs, bound) == \E m \in Inputs : nMatches < bound /\ CheckIterate(m)

NextCheck ==
    \/ CheckLoop(CheckInputs, CheckMatches)
    \/ CheckReturn

SpecCheck == Init /\ [][NextCheck]_vars

---------------------------------------------------------------------------
(* Properties *)

Returned == pc # "loop"

Responded == pc = "responded"

Entries == {statsMap[k] : k \in DOMAIN statsMap}

Players == {results.elems[i] : i \in 1..GoLen(results)}

FindingSet == {findings.elems[i] : i \in 1..GoLen(findings)}

EmptyArray(a) == ~a.null /\ a.items = <<>>

(* C1: every opponent entry, in the map during the pass and in the        *)
(* returned players list, has AsAlly + AsEnemy = Met.                      *)
C1_AllyPlusEnemyIsMet ==
    /\ \A s \in Entries : s.AsAlly + s.AsEnemy = s.Met
    /\ Returned => \A s \in Players : s.AsAlly + s.AsEnemy = s.Met
    /\ Responded => \A i \in DOMAIN response.players.items :
            LET s == response.players.items[i] IN s.AsAlly + s.AsEnemy = s.Met

C1_Witness ==
    /\ Responded
    /\ \E i \in DOMAIN response.players.items :
          LET s == response.players.items[i] IN s.AsAlly >= 1 /\ s.AsEnemy >= 1

(* C2: every opponent entry has 0 <= TargetLost <= Met. *)
C2_LossesAtMostMet ==
    /\ \A s \in Entries : s.TargetLost \in 0..s.Met
    /\ Returned => \A s \in Players : s.TargetLost \in 0..s.Met

C2_Witness ==
    /\ Responded
    /\ \E s \in Players : s.AsAlly >= 1 /\ s.TargetLost = s.Met
    /\ \E s \in Players : s.TargetLost < s.Met

(* C3: with zero matches the response has matchesCount = 0 and players,   *)
(* details and history are empty arrays, none of them null.                *)
C3_ZeroMatchesEmptyArrays ==
    (Responded /\ response.matchesCount = 0) =>
        /\ EmptyArray(response.players)
        /\ EmptyArray(response.details)
        /\ EmptyArray(response.history)

(* C4: for a non-empty match sequence, details is an empty array (not     *)
(* null) when no opponent crosses the thresholds, and history is an empty  *)
(* array (not null) when no match yields a summary.                        *)
C4_NothingToReportEmptyArrays ==
    (Responded /\ response.matchesCount > 0) =>
        /\ (\A s \in Entries : ~(s.AsEnemy >= 3 /\ 4 * s.TargetLost >= 3 * s.Met))
              => EmptyArray(response.details)
        /\ GoLen(histories) = 0 => EmptyArray(response.history)

(* C5: the players list never holds two entries whose puuids are equal    *)
(* ignoring case.                                                          *)
C5_OneEntryPerFoldedPuuid ==
    Returned => \A i, j \in 1..GoLen(results) :
        EqualFold(results.elems[i].PUUID, results.elems[j].PUUID) => i = j

(* C6: an opponent produces a finding iff AsEnemy >= 3 and                 *)
(* 4 * TargetLost >= 3 * Met (the ratio over Met, not over AsEnemy);       *)
(* one finding per such opponent and none for any other.                   *)
C6_Criterion(s) == s.AsEnemy >= 3 /\ 4 * s.TargetLost >= 3 * s.Met

C6_FindingIffCriterion ==
    Returned =>
        /\ GoLen(findings) = Cardinality({k \in DOMAIN statsMap : C6_Criterion(statsMap[k])})
        /\ \A s \in Entries : C6_Criterion(s) <=> Finding(s) \in FindingSet
        /\ \A f \in FindingSet : \E s \in Entries : C6_Criterion(s) /\ f = Finding(s)

C6_Witness ==
    /\ Responded
    /\ GoLen(findings) = 1
    /\ \E s \in Entries : s.AsEnemy = 3 /\ s.TargetLost = s.Met
                            /\ Finding(s) \in FindingSet
    /\ \E s \in Entries : s.AsEnemy = 2 /\ s.TargetLost = s.Met
                            /\ Finding(s) \notin FindingSet

(* C7: after n >= 1 matches with the subject on Red, teams.red.has_won     *)
(* false and X once on Blue, X has Met = AsEnemy = TargetLost = n, and X   *)
(* has a finding iff n >= 3.                                               *)
C7_RedLossesAgainstX ==
    nMatches >= 1 =>
        /\ X \in DOMAIN statsMap
        /\ statsMap[X].Met = nMatches
        /\ statsMap[X].AsEnemy = nMatches
        /\ statsMap[X].TargetLost = nMatches
        /\ Returned => (Finding(statsMap[X]) \in FindingSet <=> nMatches >= 3)

C7_Witness ==
    /\ Responded
    /\ nMatches = 3
    /\ Finding(statsMap[X]) \in FindingSet

C7_WitnessTwo ==
    /\ Responded
    /\ nMatches = 2
    /\ Finding(statsMap[X]) \notin FindingSet

(* C8: when the subject is on Red and teams.red.has_won is false in every  *)
(* match, every opponent's TargetLost equals its Met.                      *)
C8_AllLostOnRed ==
    /\ \A s \in Entries : s.TargetLost = s.Met
    /\ Returned => \A s \in Players : s.TargetLost = s.Met

C8_Witness ==
    /\ Responded
    /\ \E s \in Players : s.Met >= 2 /\ s.AsAlly >= 1 /\ s.AsEnemy >= 1
    /\ GoLen(histories) = 2

(* C9: with Met and AsEnemy fixed, if an opponent is flagged with          *)
(* TargetLost = L then it is flagged with every L2 in L..Met.              *)
C9_FlaggingMonotonic ==
    \A s \in Entries : \A L \in 0..s.Met : \A L2 \in L..s.Met :
        Flagged([s EXCEPT !.TargetLost = L]) => Flagged([s EXCEPT !.TargetLost = L2])

C9_Witness ==
    /\ Returned
    /\ \E s \in Entries :
          /\ s.TargetLost < s.Met
          /\ Finding(s) \in FindingSet
          /\ ~Flagged([s EXCEPT !.TargetLost = s.TargetLost - 1])

(* C10: the returned players list is ordered by Met, non-increasing, and   *)
(* holds each aggregated entry exactly once.                               *)
C10_SortedPermutation ==
    Returned =>
        /\ \A i, j \in 1..GoLen(results) :
              i < j => results.elems[i].Met >= results.elems[j].Met
        /\ GoLen(results) = Cardinality(DOMAIN statsMap)
        /\ \A k \in DOMAIN statsMap :
              Cardinality({i \in 1..GoLen(results) : results.elems[i] = statsMap[k]}) = 1

C10_Witness ==
    /\ Responded
    /\ GoLen(results) = 3
    /\ results.elems[1].Met = results.elems[2].Met
    /\ results.elems[2].Met > results.elems[3].Met

(* C11: two runs over the same input return the same players list and    *)
(* the same findings list, order included: the return value is a function  *)
(* of the aggregated map.                                                  *)
C11_DeterministicOutput ==
    pc = "loop" => Cardinality(Returns(statsMap, findings)) <= 1

(* C12: abusingDetected is true iff details is non-empty, that is, iff    *)
(* at least one opponent is flagged.                                       *)
C12_DetectedIffFindings ==
    Responded =>
        /\ response.abusingDetected <=> Len(response.details.items) > 0
        /\ response.abusingDetected <=> \E s \in Entries : C6_Criterion(s)

C12_Witness ==
    /\ Responded
    /\ response.abusingDetected
    /\ Len(response.details.items) = 1
    /\ Len(response.players.items) = 2


(* Helpers for statements about one step of the loop *)
SubjectIn(m) ==
    /\ HasList(m)
    /\ \E i \in DOMAIN m.players.all_players.list :
          /\ m.players.all_players.list[i].ok
          /\ ToLower(m.players.all_players.list[i].puuid) = ToLower(targetPUUID)

LastSummary(h) == h.elems[Len(h.elems)]

(* C13 as stated: the history holds exactly one summary per supplied match *)
(* record, so its length equals the number of match records supplied.      *)
C13_OneSummaryPerMatch ==
    /\ GoLen(histories) = nMatches
    /\ Responded => Len(response.history.items) = response.matchesCount

(* C13 amended: each record that has metadata, players and                 *)
(* players.all_players appends exactly one summary, carrying its match id, *)
(* map and mode, behind the summaries of the earlier records, also when    *)
(* the subject is not in its list; a record lacking one of the three adds  *)
(* none; the response carries the list unchanged and it is never longer    *)
(* than the number of records supplied.                                    *)
C13_SummaryPerWellFormedMatch ==
    [][/\ \A m \in ShapeInputs : Iterate(m) =>
             IF ~m.metadata.ok \/ ~HasList(m)
             THEN histories' = histories
             ELSE /\ Len(histories'.elems) = Len(histories.elems) + 1
                  /\ SubSeq(histories'.elems, 1, Len(histories.elems)) = histories.elems
                  /\ LastSummary(histories').MatchID = m.metadata.matchid
                  /\ LastSummary(histories').Map = m.metadata.map
                  /\ LastSummary(histories').Mode = m.metadata.mode
                  /\ LastSummary(histories').Agent = (IF SubjectIn(m) THEN "Jett" ELSE "")
       /\ pc # "loop" => histories' = histories
       /\ pc' = "responded" =>
             /\ response'.history.items = histories'.elems
             /\ Len(response'.history.items) <= response'.matchesCount
      ]_vars

C13_Witness ==
    /\ Responded
    /\ Len(response.history.items) = 2
    /\ response.history.items[1].MatchID # response.history.items[2].MatchID
    /\ response.history.items[1].Agent = ""
    /\ response.history.items[2].Agent = "Jett"


(* C14: a caller can have the pass run with thresholds of its choice: for  *)
(* each pair of thresholds a caller may ask for, the findings are exactly  *)
(* the entries meeting that pair.                                          *)
ThresholdChoices ==
    {[enemy |-> 3, num |-> 3, den |-> 4], [enemy |-> 5, num |-> 4, den |-> 5]}

C14_ThresholdsOverridable ==
    Returned =>
        \A cfg \in ThresholdChoices : \A s \in Entries :
            Finding(s) \in FindingSet <=>
                /\ s.AsEnemy >= cfg.enemy
                /\ s.TargetLost * cfg.den >= cfg.num * s.Met

(* C15: every entry, in the map during the pass and in the returned and    *)
(* sent list, has Met >= 1, so TargetLost / Met never divides by zero.     *)
C15_MetAtLeastOne ==
    /\ \A s \in Entries \cup Players : s.Met >= 1
    /\ Responded => \A i \in DOMAIN response.players.items :
                        response.players.items[i].Met >= 1

C15_Witness ==
    /\ Responded
    /\ \E i \in DOMAIN response.players.items :
          /\ response.players.items[i].Met = 1
          /\ response.players.items[i].AsAlly = 1

(* C16: no entry is ever kept for the subject: no key of the map and no    *)
(* PUUID of an entry equals the subject's puuid ignoring case, also when   *)
(* the subject is listed twice or in another casing.                       *)
C16_NoEntryForSubject ==
    /\ \A k \in DOMAIN statsMap : ToLower(k) # ToLower(targetPUUID)
    /\ \A s \in Entries \cup Players : ToLower(s.PUUID) # ToLower(targetPUUID)

C16_Witness ==
    /\ Responded
    /\ targetPUUID = "t"
    /\ Len(response.history.items) = 2
    /\ \A i \in 1..2 : response.history.items[i].Agent = "Jett"
    /\ Len(response.players.items) = 1
    /\ response.players.items[1].Met = 2


(* C17: no record with missing or wrongly typed fields makes the pass      *)
(* abort: the loop never panics, from every state of the loop the pass     *)
(* can return, and an element without any field is tallied under the       *)
(* zero values of its fields.                                              *)
C17_NeverAborts ==
    /\ pc # "aborted"
    /\ pc = "loop" => Returns(statsMap, findings) # {}
    /\ \A s \in Entries :
          s.PUUID = "" => s.Name = "#" /\ s.Kills = 0 /\ s.Score = 0 /\ s.AsEnemy = s.Met

C17_Witness ==
    /\ Responded
    /\ response.matchesCount = 2
    /\ Len(response.history.items) = 1
    /\ response.history.items[1].Result = ResultNone
    /\ \E i \in DOMAIN response.players.items :
          response.players.items[i].PUUID = "" /\ response.players.items[i].Met = 2


MetOf(sm, k) == IF k \in DOMAIN sm THEN sm[k].Met ELSE 0

OpponentIn(m, k) ==
    /\ HasList(m)
    /\ \E i \in DOMAIN m.players.all_players.list :
          m.players.all_players.list[i].ok /\ m.players.all_players.list[i].puuid = k

(* C18: each supplied match adds to an opponent's encounters exactly one   *)
(* if both the subject and that opponent are in its player list, and       *)
(* nothing otherwise: nothing when the subject's entry is absent, and      *)
(* never more than one.                                                    *)
C18_EncountersAreSharedMatches ==
    [][\A m \in ShapeInputs : Iterate(m) =>
          \A k \in DOMAIN statsMap' :
              MetOf(statsMap', k) - MetOf(statsMap, k) =
                  IF SubjectIn(m) /\ OpponentIn(m, k) THEN 1 ELSE 0
      ]_vars


(* the label of the subject's entry in the list of m, when it is there *)
SubjectLabel(m) == TargetScan(m.players.all_players.list, targetPUUID).targetTeam

(* the teams entry under a key, absent when there is no teams mapping *)
TeamEntry(m, key) == IF m.teams.ok THEN m.teams[key] ELSE Missing

(* C19: the key is blue when the subject's label is "blue" ignoring case   *)
(* and red for any other label, the empty one included: whenever the       *)
(* subject is found and the entry under that key exists, the summary says  *)
(* win exactly if that entry has has_won true.                             *)
C19_TeamKeyDefaultsToRed ==
    [][\A m \in OutcomeInputs : Iterate(m) /\ SubjectIn(m) =>
          LET key == IF ToLower(SubjectLabel(m)) = "blue" THEN "blue" ELSE "red"
          IN  TeamEntry(m, key).ok =>
                 (LastSummary(histories').Result = ResultWin
                     <=> TeamEntry(m, key).has_won)
      ]_vars

(* C20: for a found subject the entry selected by its label (blue for      *)
(* "blue" ignoring case, red otherwise) decides: has_won gives win         *)
(* whatever the rounds; otherwise equal positive rounds give draw and      *)
(* anything else loss; without the entry, or without the subject in the    *)
(* list, the result is unknown; the result is always one of the four.      *)
C20_OutcomeResolution ==
    [][\A m \in OutcomeInputs : Iterate(m) =>
          LET res == LastSummary(histories').Result
              key == IF ToLower(SubjectLabel(m)) = "blue" THEN "blue" ELSE "red"
              sel == TeamEntry(m, key)
          IN  /\ res \in {ResultWin, ResultDraw, ResultLoss, ResultNone}
              /\ ~SubjectIn(m) => res = ResultNone
              /\ SubjectIn(m) =>
                    /\ ~sel.ok => res = ResultNone
                    /\ sel.ok /\ sel.has_won => res = ResultWin
                    /\ sel.ok /\ ~sel.has_won /\ sel.rounds_won = sel.rounds_lost
                          /\ sel.rounds_won > 0 => res = ResultDraw
                    /\ sel.ok /\ ~sel.has_won
                          /\ ~(sel.rounds_won = sel.rounds_lost /\ sel.rounds_won > 0)
                          => res = ResultLoss
      ]_vars


LostOf(sm, k) == IF k \in DOMAIN sm THEN sm[k].TargetLost ELSE 0

(* C21: in every match, each encounter counted for an opponent adds one    *)
(* to its TargetLost exactly when the result recorded for the subject in   *)
(* that match is not a win: for loss, draw and unknown, never for a win.   *)
C21_LostIffNotWin ==
    [][\A m \in OutcomeInputs : Iterate(m) =>
          \A k \in DOMAIN statsMap' :
              LostOf(statsMap', k) - LostOf(statsMap, k) =
                  IF LastSummary(histories').Result = ResultWin
                  THEN 0
                  ELSE MetOf(statsMap', k) - MetOf(statsMap, k)
      ]_vars

C21_Witness ==
    /\ Responded
    /\ {response.history.items[i].Result : i \in DOMAIN response.history.items}
           = {ResultWin, ResultDraw}
    /\ \E i \in DOMAIN response.players.items :
          response.players.items[i].Met = 2 /\ response.players.items[i].TargetLost = 1


AllyOf(sm, k) == IF k \in DOMAIN sm THEN sm[k].AsAlly ELSE 0

EnemyOf(sm, k) == IF k \in DOMAIN sm THEN sm[k].AsEnemy ELSE 0

(* the label of the other player, the last element of the list of m *)
OtherLabel(m) == m.players.all_players.list[Len(m.players.all_players.list)].team

(* C22: the encounter of a match counts as ally exactly if the subject is  *)
(* in the list and its label and the other player's label are both         *)
(* non-empty and equal ignoring case; in every other case it counts as     *)
(* enemy.                                                                  *)
C22_AllyIffSameLabel ==
    [][\A m \in SideInputs : Iterate(m) =>
          LET sameSide == /\ SubjectIn(m)
                          /\ SubjectLabel(m) # ""
                          /\ OtherLabel(m) # ""
                          /\ ToLower(SubjectLabel(m)) = ToLower(OtherLabel(m))
          IN  /\ AllyOf(statsMap', X) - AllyOf(statsMap, X) = (IF sameSide THEN 1 ELSE 0)
              /\ EnemyOf(statsMap', X) - EnemyOf(statsMap, X) = (IF sameSide THEN 0 ELSE 1)
      ]_vars

C22_Witness ==
    /\ Responded
    /\ Len(response.history.items) = 2
    /\ \A i \in 1..2 : response.history.items[i].Agent = "Jett"
    /\ Len(response.players.items) = 1
    /\ response.players.items[1].AsAlly = 1
    /\ response.players.items[1].AsEnemy = 1


(* the elements of the list of m that the second loop tallies under key k: *)
(* JSON objects with puuid k, k not being the subject                      *)
Counted(m, k) ==
    IF ~m.metadata.ok \/ ~HasList(m) \/ ToLower(k) = ToLower(targetPUUID) THEN {}
    ELSE {i \in DOMAIN m.players.all_players.list :
             /\ m.players.all_players.list[i].ok
             /\ m.players.all_players.list[i].puuid = k}

RECURSIVE SumOver(_, _, _, _)
SumOver(list, idx, f, i) ==
    IF i > Len(list) THEN 0
    ELSE (IF i \in idx /\ list[i].stats.ok THEN list[i].stats[f] ELSE 0)
         + SumOver(list, idx, f, i + 1)

StatOf(sm, k, f) == IF k \in DOMAIN sm THEN sm[k][f] ELSE 0

(* C23: each match adds to an opponent's Kills, Deaths, Assists and Score  *)
(* the values of the stats records of that opponent's own counted          *)
(* elements, nothing for an element without stats record, and nothing of   *)
(* the subject's stats.                                                    *)
C23_CumulativeOwnStats ==
    [][\A m \in ShapeInputs : Iterate(m) =>
          \A k \in DOMAIN statsMap' :
              LET idx == Counted(m, k)
                  list == IF idx = {} THEN <<>> ELSE m.players.all_players.list
              IN  /\ StatOf(statsMap', k, "Kills") - StatOf(statsMap, k, "Kills")
                        = SumOver(list, idx, "kills", 1)
                  /\ StatOf(statsMap', k, "Deaths") - StatOf(statsMap, k, "Deaths")
                        = SumOver(list, idx, "deaths", 1)
                  /\ StatOf(statsMap', k, "Assists") - StatOf(statsMap, k, "Assists")
                        = SumOver(list, idx, "assists", 1)
                  /\ StatOf(statsMap', k, "Score") - StatOf(statsMap, k, "Score")
                        = SumOver(list, idx, "score", 1)
      ]_vars

C23_Witness ==
    /\ Responded
    /\ \E i \in DOMAIN response.history.items : response.history.items[i].Kills = 2
    /\ \E i \in DOMAIN response.players.items :
          /\ response.players.items[i].PUUID = X
          /\ response.players.items[i].Met = 2
          /\ response.players.items[i].Kills = 1
          /\ response.players.items[i].Deaths = 3
          /\ response.players.items[i].Score = 2
    /\ \E i \in DOMAIN response.players.items :
          /\ response.players.items[i].PUUID = ""
          /\ response.players.items[i].Met = 1
          /\ response.players.items[i].Kills = 0


(* C24: a match without the teams mapping takes no part in the             *)
(* aggregation: it changes no counter and no cumulative stat of any        *)
(* opponent and creates no entry.                                          *)
C24_NoTeamsNoAggregation ==
    [][\A m \in ShapeInputs : Iterate(m) /\ ~m.teams.ok => statsMap' = statsMap]_vars


(* C27: matchesCount is the number of records supplied, skipped ones       *)
(* included, so it is never below the length of history.                   *)
C27_MatchesCountIsSupplied ==
    Responded =>
        /\ response.matchesCount = nMatches
        /\ response.matchesCount >= Len(response.history.items)

C27_Witness ==
    /\ Responded
    /\ response.matchesCount = 2
    /\ Len(response.history.items) = 1
    /\ response.history.items[1].Agent = "Jett"


(* C28: a record without metadata, without players or without the          *)
(* all_players list appends no summary and changes no entry, also when     *)
(* only the metadata is missing and its player list and teams are fine.    *)
C28_SkippedEntirely ==
    [][\A m \in ShapeInputs :
          Iterate(m) /\ (~m.metadata.ok \/ ~m.players.ok \/ ~m.players.all_players.ok)
              => histories' = histories /\ statsMap' = statsMap
      ]_vars

C28_Witness ==
    /\ Responded
    /\ response.matchesCount = 2
    /\ EmptyArray(response.players)
    /\ response.history.null
    /\ response.details.null

RECURSIVE SumMet(_, _)
SumMet(sm, keys) ==
    IF keys = {} THEN 0
    ELSE LET k == CHOOSE x \in keys : TRUE
         IN  sm[k].Met + SumMet(sm, keys \ {k})

(* the elements of the list of m that are JSON objects with a puuid other  *)
(* than the subject's ignoring case, none if m is skipped                  *)
OtherElements(m) ==
    IF ~m.metadata.ok \/ ~HasList(m) THEN {}
    ELSE {i \in DOMAIN m.players.all_players.list :
             /\ m.players.all_players.list[i].ok
             /\ ToLower(m.players.all_players.list[i].puuid) # ToLower(targetPUUID)}

(* C29: each match adds to the sum of Met over all entries the number of   *)
(* its elements that are objects with a puuid other than the subject's,    *)
(* and nothing if it is skipped; the pass starts with an empty map, so     *)
(* the sum is the number of such elements over the whole input.            *)
C29_EncountersConserved ==
    [][/\ \A m \in ShapeInputs : Iterate(m) =>
             SumMet(statsMap', DOMAIN statsMap')
                 = SumMet(statsMap, DOMAIN statsMap) + Cardinality(OtherElements(m))
       /\ pc # "loop" => statsMap' = statsMap
      ]_vars

C29_Witness ==
    /\ Responded
    /\ response.matchesCount = 2
    /\ Len(response.history.items) = 1
    /\ Len(response.players.items) = 2
    /\ \A i \in 1..2 : response.players.items[i].Met = 1

(* C30: the PUUID and the Name of an entry are set when the entry is       *)
(* created, from the key and from name, "#" and tag of the element that    *)
(* creates it, and no later element changes them.                          *)
C30_IdentityFixedAtCreation ==
    [][/\ \A k \in DOMAIN statsMap :
             /\ k \in DOMAIN statsMap'
             /\ statsMap'[k].PUUID = statsMap[k].PUUID
             /\ statsMap'[k].Name = statsMap[k].Name
       /\ \A m \in ShapeInputs : Iterate(m) =>
             \A k \in DOMAIN statsMap' \ DOMAIN statsMap :
                 LET first == CHOOSE i \in Counted(m, k) : \A j \in Counted(m, k) : i <= j
                     p == m.players.all_players.list[first]
                 IN  /\ statsMap'[k].PUUID = k
                     /\ statsMap'[k].Name = p.name \o "#" \o p.tag
      ]_vars

C30_Witness ==
    /\ Responded
    /\ Len(response.history.items) = 2
    /\ \A i \in 1..2 : response.history.items[i].Agent = "Jett"
    /\ Len(response.players.items) = 1
    /\ response.players.items[1].Name = "other#2"
    /\ response.players.items[1].Met = 2
    /\ response.players.items[1].Kills = 1


CheckMetOf(os, k) == IF k \in DOMAIN os THEN os[k].MatchesMet ELSE 0

CheckNamed(f) == {f.elems[i].PUUID : i \in DOMAIN f.elems}

(* the other players of the list of m with puuid k *)
CheckAppears(m, k) == {i \in DOMAIN CheckList(m) : CheckList(m)[i].puuid = k}

(* C26 as stated: CheckForAbusing flags exactly the opponents with         *)
(* MatchesMet >= 5 and LossesAgainst / MatchesMet >= 0.8, and MatchesMet   *)
(* counts every match in which the opponent appears with the subject,      *)
(* whatever the teams.                                                     *)
C26_FlagsOverAllAppearances ==
    [][/\ \A m \in CheckInputs : CheckIterate(m) /\ pc' = "loop" =>
             \A k \in {X, "b"} :
                 CheckMetOf(statsMap', k) - CheckMetOf(statsMap, k)
                     = (IF CheckAppears(m, k) # {} THEN 1 ELSE 0)
       /\ pc = "loop" /\ pc' = "returned" =>
             \A k \in DOMAIN statsMap :
                 k \in CheckNamed(findings') <=>
                     /\ statsMap[k].MatchesMet >= 5
                     /\ 5 * statsMap[k].LossesAgainst >= 4 * statsMap[k].MatchesMet
      ]_vars

(* C26 amended: the same criterion, MatchesMet counting the matches in     *)
(* which the opponent appears with a team label other than the subject's;  *)
(* a player carrying the subject's label is not counted.                   *)
C26_FlagsOverOtherTeamAppearances ==
    [][/\ \A m \in CheckInputs : CheckIterate(m) /\ pc' = "loop" =>
             \A k \in {X, "b"} :
                 CheckMetOf(statsMap', k) - CheckMetOf(statsMap, k)
                     = (IF \E i \in CheckAppears(m, k) : CheckList(m)[i].team # SubjectExact.team
                        THEN 1 ELSE 0)
       /\ pc = "loop" /\ pc' = "returned" =>
             \A k \in DOMAIN statsMap :
                 k \in CheckNamed(findings') <=>
                     /\ statsMap[k].MatchesMet >= 5
                     /\ 5 * statsMap[k].LossesAgainst >= 4 * statsMap[k].MatchesMet
      ]_vars

C26_Witness ==
    /\ pc = "returned"
    /\ nMatches = 6
    /\ X \in DOMAIN statsMap
    /\ statsMap[X].MatchesMet = 5
    /\ statsMap[X].LossesAgainst = 4
    /\ GoLen(findings) = 1
    /\ findings.elems[1].lossRatio = 80


RECURSIVE RunLoop(_, _, _)
RunLoop(st, input, i) ==
    IF i > Len(input) THEN st ELSE RunLoop(Body(st, input[i]), input, i + 1)

(* what a call with this subject and this input may return when it runs    *)
(* with no other call around                                               *)
Alone(target, input) ==
    LET st == RunLoop(Fresh(target), input, 1)
    IN  {[results |-> ret.results, findings |-> ret.findings, histories |-> st.histories] :
            ret \in Returns(st.statsMap, st.findings)}

(* C25: whatever the interleaving of two invocations, each holds in its    *)
(* loop the map and history of a run alone on the records it has consumed  *)
(* and returns a result such a run returns.                                *)
C25_CallsIndependent ==
    \A i \in CallIds :
        /\ calls[i].pc = "loop" =>
              /\ calls[i].statsMap = RunLoop(Fresh(CallTargets[i]), calls[i].input, 1).statsMap
              /\ calls[i].histories
                    = RunLoop(Fresh(CallTargets[i]), calls[i].input, 1).histories
        /\ calls[i].pc = "returned" =>
              [results |-> calls[i].results, findings |-> calls[i].findings,
               histories |-> calls[i].histories] \in Alone(CallTargets[i], calls[i].input)

C25_Witness ==
    /\ calls[1].pc = "returned"
    /\ Len(calls[1].input) = 2
    /\ GoLen(calls[1].results) = 2
    /\ calls[2].pc = "loop"
    /\ Len(calls[2].input) = 1
    /\ DOMAIN calls[2].statsMap = {"T"}

====
